---------------------------- MODULE Spec2Model ----------------------------
(***************************************************************************)
(* Model of the Mecon dashboard's derived-analytics engine                 *)
(* (frontend/app/dashboard/page.tsx, frontend/src/lib/api.ts).             *)
(*                                                                         *)
(* The React state of the Dashboard component is the state of the model.   *)
(* Every async handler (runPipeline, runWhatIfAnalysis, recomputeSchedule) *)
(* is cut at its awaits: one action per resumption, which runs the         *)
(* synchronous code up to and including the issue of the next backend      *)
(* call.  Backend calls in flight are the elements of net.                 *)
(*                                                                         *)
(* Numbers: weights are kept in hundredths (0.65 is 65), the projector's   *)
(* reals are exact rationals scaled by Scale, avgUtilization is kept in    *)
(* tenths of an hour, a Date is its time value in milliseconds.            *)
(*                                                                         *)
(* The values of the useMemo hooks (dynamicKpis, ganttTasks,               *)
(* deferredJobsList) are variables that every state update recomputes.     *)
(* scheduleFor and some fields of the run records are history: the program *)
(* never reads them.                                                       *)
(***************************************************************************)
EXTENDS Integers, Sequences, FiniteSets, TLC

VARIABLES
    loading,          \* useState(false)
    scheduleData,     \* useState<any>(null)
    riskData,         \* useState<any[]>([])
    jobsData,         \* useState<any[]>([])
    maintenanceData,  \* useState<any[]>([])
    scenarioData,     \* useState<any[]>([])
    weights,          \* useState({w_throughput, w_risk, w_cost})
    scheduleKpis,     \* useState({totalScheduled, ...})
    kpis,             \* useState({total, healthy, warning, highRisk})
    dynamicKpis,      \* useMemo(..., [kpis, weights]): the projected FleetKPIs
    ganttTasks,       \* useMemo(() => buildGanttTasks(), [scheduleData])
    deferredJobsList, \* useMemo(..., [scheduleData]): the deferral annotations
    run,              \* the invocations of runPipeline, each with its position
    rec,              \* the invocations of recomputeSchedule
    net,              \* backend calls issued and not yet answered
    scheduleFor       \* history: the weights of the request whose response
                      \* setScheduleData stored last

vars == <<loading, scheduleData, riskData, jobsData, maintenanceData,
          scenarioData, weights, scheduleKpis, kpis, dynamicKpis, ganttTasks,
          deferredJobsList, run, rec, net, scheduleFor>>

appState == <<loading, scheduleData, riskData, jobsData, maintenanceData,
              scenarioData, weights, scheduleKpis, kpis, dynamicKpis, ganttTasks,
              deferredJobsList>>

-----------------------------------------------------------------------------
(* Bounds of the model *)

MaxRuns == 2          \* invocations of runPipeline (mount effect, Refresh button)
MaxRecomputes == 1    \* invocations of recomputeSchedule (slider moves)
MaxTotal == 5         \* fleet size of the projector's inputs
MaxMachines == 2      \* machines of an aggregated schedule
MaxJobs == 2          \* jobs of one machine of an aggregated schedule
MaxUnassigned == 4    \* unassigned jobs of an annotated schedule

Runs == 1..MaxRuns
Recs == 1..MaxRecomputes

-----------------------------------------------------------------------------
(* Values *)

NULL == [isNull |-> TRUE]

\* useState of weights, page.tsx 56-60, in hundredths
InitWeights == [w_throughput |-> 65, w_risk |-> 75, w_cost |-> 45]

\* the range input of WeightSlider: min 0, max 1, step 0.05
SliderValues == {5 * n : n \in 0..20}

\* the slider positions the pipeline specification tries
SliderPicks == {0}

\* the slider positions the projector specification tries
ProjectorPicks == {v \in SliderValues : v % 10 = 0}

WeightFields == {"w_throughput", "w_risk", "w_cost"}

\* useState of scheduleKpis, page.tsx 63-70
InitScheduleKpis ==
    [totalScheduled |-> 0, unassigned |-> 0, onTime |-> 0, late |-> 0,
     totalRevenue |-> 0, avgUtilization |-> 0]

\* useState of kpis, page.tsx 72
InitKpis == [total |-> 0, healthy |-> 0, warning |-> 0, highRisk |-> 0]

Job(id, s, e, d, r) ==
    [Job_ID |-> id, start |-> s, end |-> e, deadline_hours |-> d, revenue |-> r]

\* Responses of POST /optimize-schedule.  The last one lacks machine_schedules.
ScheduleA ==
    [machine_schedules |->
        << [id |-> "M1",
            schedule |-> << Job("J1", 0, 4, 5, 100), Job("J2", 4, 10, 8, 50) >>] >>,
     unassigned_jobs |-> << "J3" >>]

ScheduleNone ==
    [machine_schedules |-> << [id |-> "M1", schedule |-> << >>] >>,
     unassigned_jobs |-> << "J1", "J2", "J3" >>]

ScheduleMalformed == [unassigned_jobs |-> << "J1" >>]

OptimizerResponses == {ScheduleA, ScheduleNone, ScheduleMalformed}

Machine(id, level) == [Machine_ID |-> id, risk_level |-> level]

\* Responses of GET /high-risk-machines
RiskA ==
    << Machine("M1", "Healthy"), Machine("M2", "Healthy"), Machine("M3", "Healthy"),
       Machine("M4", "Healthy"), Machine("M5", "High Risk") >>

RiskResponses == {RiskA}

\* Responses of GET /jobs and GET /simulate-maintenance
JobsResponses == { << "J1", "J2", "J3" >> }

MaintenanceResponses == { << "M5" >> }

-----------------------------------------------------------------------------
(* Schedule Aggregator: computeScheduleKpis, page.tsx 104-132 *)

HasMachineSchedules(schedule) == "machine_schedules" \in DOMAIN schedule

\* unassigned: schedule.unassigned_jobs?.length || 0
UnassignedCount(schedule) ==
    IF "unassigned_jobs" \in DOMAIN schedule THEN Len(schedule.unassigned_jobs) ELSE 0

InitAcc ==
    [totalScheduled |-> 0, onTime |-> 0, late |-> 0, totalRevenue |-> 0,
     totalBusyHours |-> 0, machineCount |-> 0]

\* the body of machine.schedule.forEach, lines 115-120, with the bug of
\* counting a job that ends exactly at its deadline as neither
JobStepStrict(acc, job) ==
    [acc EXCEPT
        !.totalScheduled = @ + 1,
        !.totalBusyHours = @ + (job.end - job.start),
        !.onTime = IF job.end < job.deadline_hours THEN @ + 1 ELSE @,
        !.late = IF job.end > job.deadline_hours THEN @ + 1 ELSE @,
        !.totalRevenue = @ + (IF "revenue" \in DOMAIN job THEN job.revenue ELSE 0)]

\* the body of machine.schedule.forEach, lines 115-120
JobStep(acc, job) ==
    [acc EXCEPT
        !.totalScheduled = @ + 1,
        !.totalBusyHours = @ + (job.end - job.start),
        !.onTime = IF job.end <= job.deadline_hours THEN @ + 1 ELSE @,
        !.late = IF job.end <= job.deadline_hours THEN @ ELSE @ + 1,
        !.totalRevenue = @ + (IF "revenue" \in DOMAIN job THEN job.revenue ELSE 0)]

RECURSIVE JobsFold(_, _)
JobsFold(acc, jobs) ==
    IF jobs = << >> THEN acc ELSE JobsFold(JobStep(acc, Head(jobs)), Tail(jobs))

\* the body of Object.values(...).forEach, lines 113-121
RECURSIVE MachinesFold(_, _)
MachinesFold(acc, machines) ==
    IF machines = << >> THEN acc
    ELSE MachinesFold(
            JobsFold([acc EXCEPT !.machineCount = @ + 1], Head(machines).schedule),
            Tail(machines))

\* the average cut off after the first decimal: not the program
AvgUtilizationTruncated(totalBusyHours, machineCount) ==
    IF machineCount > 0
    THEN (10 * totalBusyHours) \div machineCount
    ELSE 0

\* Number((totalBusyHours / machineCount).toFixed(1)), in tenths of an hour;
\* toFixed rounds to the nearest tenth, a tie going up
AvgUtilization(totalBusyHours, machineCount) ==
    IF machineCount > 0
    THEN (20 * totalBusyHours + machineCount) \div (2 * machineCount)
    ELSE 0

\* lines 106-131: the ScheduleKPIs of a schedule that has machine_schedules
Aggregate(schedule) ==
    LET acc == MachinesFold(InitAcc, schedule.machine_schedules) IN
    [totalScheduled |-> acc.totalScheduled,
     unassigned |-> UnassignedCount(schedule),
     onTime |-> acc.onTime,
     late |-> acc.late,
     totalRevenue |-> acc.totalRevenue,
     avgUtilization |-> AvgUtilization(acc.totalBusyHours, acc.machineCount)]

\* computeScheduleKpis(schedule): the new value of scheduleKpis, old being the
\* current one (line 105 returns without calling setScheduleKpis)
computeScheduleKpis(schedule, old) ==
    IF ~HasMachineSchedules(schedule) THEN old ELSE Aggregate(schedule)

-----------------------------------------------------------------------------
(* Risk Bucket Projector: dynamicKpis, page.tsx 134-153 *)

Scale == 100 * 1000

Max(a, b) == IF a >= b THEN a ELSE b
Min(a, b) == IF a <= b THEN a ELSE b

\* Math.round of x / Scale: floor(x / Scale + 0.5)
MathRound(x) == (2 * x + Scale) \div (2 * Scale)

DynamicKpisOf(k, w) ==
    IF k.total = 0 THEN k
    ELSE
      LET \* all in units of 1 / Scale
          throughputImpact == (w.w_throughput - 40) * k.total * 35 * 10
          riskImpact == (w.w_risk - 30) * k.total * 45 * 10
          costImpact == (w.w_cost - 30) * k.total * 30 * 10
          costImpact03 == (w.w_cost - 30) * k.total * 30 * 3
          healthy0 == k.healthy * Scale + riskImpact - throughputImpact - costImpact
          highRisk0 == k.highRisk * Scale - riskImpact + throughputImpact + costImpact03
          newHealthy == Max(0, Min(k.total * Scale, healthy0))
          newHighRisk == Max(0, Min(k.total * Scale - newHealthy, highRisk0))
          newWarning == k.total * Scale - newHealthy - newHighRisk
      IN [total |-> k.total,
          healthy |-> MathRound(newHealthy),
          warning |-> MathRound(newWarning),
          highRisk |-> MathRound(newHighRisk)]

-----------------------------------------------------------------------------
(* FleetKPIs of a risk snapshot: runPipeline, page.tsx 237-242 *)

RECURSIVE CountLevel(_, _)
CountLevel(data, level) ==
    IF data = << >> THEN 0
    ELSE (IF Head(data).risk_level = level THEN 1 ELSE 0) + CountLevel(Tail(data), level)

FleetKpis(data) ==
    [total |-> Len(data),
     healthy |-> CountLevel(data, "Healthy"),
     warning |-> CountLevel(data, "Warning"),
     highRisk |-> CountLevel(data, "High Risk")]

-----------------------------------------------------------------------------
(* Scenario Runner: the pure part of runWhatIfAnalysis, page.tsx 202-219 *)

scenarios(w) ==
    << [name |-> "Balanced", weights |-> w],
       [name |-> "Throughput Focus",
        weights |-> [w_throughput |-> 70, w_risk |-> 20, w_cost |-> 10]],
       [name |-> "Risk Focus",
        weights |-> [w_throughput |-> 20, w_risk |-> 60, w_cost |-> 20]] >>

NumScenarios == Len(scenarios(InitWeights))

RECURSIVE SumScheduleLengths(_)
SumScheduleLengths(machines) ==
    IF machines = << >> THEN 0
    ELSE Len(Head(machines).schedule) + SumScheduleLengths(Tail(machines))

\* lines 211-219 with the bug of counting machines instead of jobs
ScenarioResultMachines(name, schedule) ==
    [scenario |-> name,
     scheduled |-> Len(schedule.machine_schedules),
     unassigned |-> UnassignedCount(schedule)]

\* lines 211-219: the row pushed for one preset
ScenarioResult(name, schedule) ==
    [scenario |-> name,
     scheduled |-> SumScheduleLengths(schedule.machine_schedules),
     unassigned |-> UnassignedCount(schedule)]

-----------------------------------------------------------------------------
(* The backend: api.ts 7-23.  A call in flight is a record of net. *)

NetworkFailure == [error |-> "NetworkFailure"]
\* axios resolves with a response object whose data field is the body
Response(body) == [data |-> body]
Ack == Response("ack")
Answers(bodies) == {Response(b) : b \in bodies} \cup {NetworkFailure}

Failed(res) == "error" \in DOMAIN res

\* The stages of runPipeline in the order of its awaits, page.tsx 230-252
PipelineStagesSwapped ==
    << "training", "generating-data", "fetching-risk", "optimizing-schedule",
       "running-scenarios", "fetching-jobs", "simulating-maintenance" >>

PipelineStages ==
    << "generating-data", "training", "fetching-risk", "optimizing-schedule",
       "running-scenarios", "fetching-jobs", "simulating-maintenance" >>

StageIndex(stage) == CHOOSE n \in 1..Len(PipelineStages) : PipelineStages[n] = stage

\* the stage whose call follows the one of stage, "done" after the last
StageAfter(stage) ==
    IF StageIndex(stage) = Len(PipelineStages) THEN "done"
    ELSE PipelineStages[StageIndex(stage) + 1]

\* api.ts: the endpoint each stage calls
EndpointOf(stage) ==
    CASE stage = "generating-data" -> "POST /generate-data"
      [] stage = "training" -> "POST /train-model"
      [] stage = "fetching-risk" -> "GET /high-risk-machines"
      [] stage = "optimizing-schedule" -> "POST /optimize-schedule"
      [] stage = "running-scenarios" -> "POST /optimize-schedule"
      [] stage = "recompute" -> "POST /optimize-schedule"
      [] stage = "fetching-jobs" -> "GET /jobs"
      [] stage = "simulating-maintenance" -> "GET /simulate-maintenance"

Call(owner, stage, w, k) ==
    [owner |-> owner, stage |-> stage, op |-> EndpointOf(stage), w |-> w, k |-> k]

RunOwner(r) == << "run", r >>
RecOwner(c) == << "rec", c >>

Pending(owner) == {q \in net : q.owner = owner}

RECURSIVE SortByK(_)
SortByK(calls) ==
    IF calls = {} THEN << >>
    ELSE LET q == CHOOSE q \in calls : \A p \in calls : q.k <= p.k
         IN << q >> \o SortByK(calls \ {q})

\* the for loop of runWhatIfAnalysis with the calls of all presets started
\* at once instead of one per iteration
ScenarioCallsAfterFanOut(k) == IF k = 0 THEN 1..NumScenarios ELSE {}

\* the for loop of runWhatIfAnalysis, page.tsx 209-210: the presets whose
\* call is issued once the answer to preset k is in (k = 0: on entry)
ScenarioCallsAfter(k) == IF k < NumScenarios THEN {k + 1} ELSE {}

ScenarioCalls(r, w, k) ==
    {Call(RunOwner(r), "running-scenarios", scenarios(w)[j].weights, j) :
        j \in ScenarioCallsAfter(k)}

\* the calls runPipeline issues on reaching stage
CallsOf(r, w, stage) ==
    CASE stage = "done" -> {}
      [] stage = "running-scenarios" -> ScenarioCalls(r, w, 0)
      [] stage = "optimizing-schedule" -> {Call(RunOwner(r), stage, w, 0)}
      [] OTHER -> {Call(RunOwner(r), stage, NULL, 0)}

-----------------------------------------------------------------------------
(* Timeline Builder: buildGanttTasks, page.tsx 158-180.  A Date is its time *)
(* value in milliseconds; the styles of a task are constants and left out.  *)

\* what new Date() reads at line 161
Clock == {0, 500}

\* line 165: new Date(now.getTime() + hours * 3600 * 1000)
DateAfter(now, hours) == now + hours * 3600 * 1000

\* the tasks of one machine with ids that leave the machine out: not the
\* program
MachineTasksSharedIds(machine, now) ==
    [n \in DOMAIN machine.schedule |->
        LET job == machine.schedule[n]
        IN [id |-> "task_" \o ToString(n - 1),
            name |-> job.Job_ID,
            start |-> DateAfter(now, job.start),
            end |-> DateAfter(now, job.end),
            type |-> "task", progress |-> 100, isDisabled |-> FALSE]]

\* lines 164-178 for one machine: machine.schedule.forEach((job, idx) => ...),
\* idx counting from 0
MachineTasks(machine, now) ==
    [n \in DOMAIN machine.schedule |->
        LET job == machine.schedule[n]
        IN [id |-> machine.id \o "_" \o ToString(n - 1),
            name |-> job.Job_ID,
            start |-> DateAfter(now, job.start),
            end |-> DateAfter(now, job.end),
            type |-> "task", progress |-> 100, isDisabled |-> FALSE]]

\* line 163: Object.entries(...).forEach, pushing onto tasks
RECURSIVE TasksFold(_, _, _)
TasksFold(tasks, machines, now) ==
    IF machines = << >> THEN tasks
    ELSE TasksFold(tasks \o MachineTasks(Head(machines), now), Tail(machines), now)

buildGanttTasks(schedule, now) ==
    IF ~HasMachineSchedules(schedule) THEN << >>
    ELSE TasksFold(<< >>, schedule.machine_schedules, now)

-----------------------------------------------------------------------------
(* Deferral Annotator: deferredJobsList, page.tsx 185-195 *)

reasons ==
    << "Capacity Constraint: Required machine type fully utilized within deadline.",
       "Maintenance Conflict: Required machine locked for mandatory single-cycle maintenance.",
       "Cost Constraint: Processing cost exceeds allowable threshold for optimization weights." >>

\* a reason that alternates between the first two: not the program
DeferralReasonAlternating(idx) == reasons[(idx % 2) + 1]

\* line 193: reasons[idx % reasons.length], idx counting from 0
DeferralReason(idx) == reasons[(idx % Len(reasons)) + 1]

DeferredJobs(schedule) ==
    IF "unassigned_jobs" \notin DOMAIN schedule THEN << >>
    ELSE [n \in DOMAIN schedule.unassigned_jobs |->
            [id |-> schedule.unassigned_jobs[n], reason |-> DeferralReason(n - 1)]]

-----------------------------------------------------------------------------
(* The React state as one record, and its assignment *)

App ==
    [loading |-> loading, scheduleData |-> scheduleData, riskData |-> riskData,
     jobsData |-> jobsData, maintenanceData |-> maintenanceData,
     scenarioData |-> scenarioData, weights |-> weights,
     scheduleKpis |-> scheduleKpis, kpis |-> kpis]

\* T is the value of S, computed once
SetApp(S) ==
    \E T \in {S} :
       /\ loading' = T.loading
       /\ scheduleData' = T.scheduleData
       /\ riskData' = T.riskData
       /\ jobsData' = T.jobsData
       /\ maintenanceData' = T.maintenanceData
       /\ scenarioData' = T.scenarioData
       /\ weights' = T.weights
       /\ scheduleKpis' = T.scheduleKpis
       /\ kpis' = T.kpis
       \* the next render: the memos whose dependencies changed are
       \* recomputed.  A schedule equal to the stored one keeps the list of
       \* tasks of the earlier reading of the clock.
       /\ dynamicKpis' = DynamicKpisOf(T.kpis, T.weights)
       /\ ganttTasks' \in IF T.scheduleData = scheduleData THEN {ganttTasks}
                          ELSE {buildGanttTasks(T.scheduleData, now) : now \in Clock}
       /\ deferredJobsList' = DeferredJobs(T.scheduleData)

-----------------------------------------------------------------------------
(* Processes *)

IdleRun ==
    [pc |-> "idle", w |-> NULL, i |-> 0, results |-> << >>,
     issued |-> << >>,          \* history: the calls this run has issued
     failed |-> "none",          \* history: the stage whose failure ended the run
     scenarioFailed |-> FALSE,   \* history: runWhatIfAnalysis caught a failure
     answers |-> << >>]          \* history: the bodies runWhatIfAnalysis received

IdleRec ==
    [pc |-> "idle", newWeights |-> NULL, issued |-> << >>, failed |-> FALSE]

Active(r) == run[r].pc \notin {"idle", "done"}

Init ==
    /\ loading = FALSE
    /\ scheduleData = NULL
    /\ riskData = << >>
    /\ jobsData = << >>
    /\ maintenanceData = << >>
    /\ scenarioData = << >>
    /\ weights = InitWeights
    /\ scheduleKpis = InitScheduleKpis
    /\ kpis = InitKpis
    /\ dynamicKpis = DynamicKpisOf(InitKpis, InitWeights)
    /\ ganttTasks = buildGanttTasks(NULL, 0)
    /\ deferredJobsList = DeferredJobs(NULL)
    /\ run = [r \in Runs |-> IdleRun]
    /\ rec = [c \in Recs |-> IdleRec]
    /\ net = {}
    /\ scheduleFor = NULL

-----------------------------------------------------------------------------
(* The synchronous pieces of the handlers, as functions of the React state *)

\* runPipeline 235-242: setRiskData, setKpis
SetRisk(S, data) == [S EXCEPT !.riskData = data, !.kpis = FleetKpis(data)]

\* runPipeline 245-246: setScheduleData, computeScheduleKpis
PipelineSchedule(S, data) ==
    [S EXCEPT !.scheduleData = data,
              !.scheduleKpis = computeScheduleKpis(data, S.scheduleKpis)]

\* recomputeSchedule 264-265 with the bug of blanking the scenario table
\* of the old weights
RecomputeScheduleBlanks(S, data) ==
    [S EXCEPT !.scheduleData = data,
              !.scheduleKpis = computeScheduleKpis(data, S.scheduleKpis),
              !.scenarioData = << >>]

\* recomputeSchedule 264-265: setScheduleData, computeScheduleKpis
RecomputeSchedule(S, data) ==
    [S EXCEPT !.scheduleData = data,
              !.scheduleKpis = computeScheduleKpis(data, S.scheduleKpis)]

-----------------------------------------------------------------------------
(* runPipeline, page.tsx 227-258, and runWhatIfAnalysis, 200-225 *)

\* the answer to call q is in and was handled without a throw out of the try
\* of runPipeline: S is the React state after the setters of this resumption;
\* the run goes on to the next await of runPipeline, or ends (line 257).
\* scenarioThrew and answers feed the history fields of the run.
Proceed(r, q, S, scenarioThrew, answers) ==
    LET stage == StageAfter(run[r].pc)
        calls == CallsOf(r, run[r].w, stage)
    IN /\ run' = [run EXCEPT ![r] =
                    [@ EXCEPT !.pc = stage,
                              !.i = IF stage = "running-scenarios" THEN 1 ELSE 0,
                              !.results = << >>,
                              !.issued = @ \o SortByK(calls),
                              !.scenarioFailed = @ \/ scenarioThrew,
                              !.answers = answers]]
       /\ net' = (net \ {q}) \cup calls
       /\ SetApp(IF stage = "done" THEN [S EXCEPT !.loading = FALSE] ELSE S)
       /\ scheduleFor' = IF run[r].pc = "optimizing-schedule" THEN q.w
                          ELSE scheduleFor
       /\ UNCHANGED rec

\* a catch that leaves the indicator as it is: not the program
CatchKeepsLoading(r, q) ==
    /\ run' = [run EXCEPT ![r] = [@ EXCEPT !.pc = "done", !.failed = run[r].pc]]
    /\ net' = net \ {q}
    /\ SetApp(App)
    /\ UNCHANGED <<rec, scheduleFor>>

\* the awaited call threw: catch of runPipeline, 254-257
Catch(r, q) ==
    /\ run' = [run EXCEPT ![r] = [@ EXCEPT !.pc = "done", !.failed = run[r].pc]]
    /\ net' = net \ {q}
    /\ SetApp([App EXCEPT !.loading = FALSE])
    /\ UNCHANGED <<rec, scheduleFor>>

\* the call the run is suspended on
Awaited(r, stage) ==
    {q \in Pending(RunOwner(r)) : q.stage = stage /\ q.k = run[r].i}

\* lines 227-230: setLoading(true), generateData()
StartPipeline(r) ==
    LET stage == PipelineStages[1]
        calls == CallsOf(r, weights, stage)
    IN /\ run[r].pc = "idle"
       /\ \A x \in 1..(r - 1) : run[x].pc # "idle"
       /\ run' = [run EXCEPT ![r] =
                    [IdleRun EXCEPT !.pc = stage,
                                    !.w = weights,
                                    !.issued = SortByK(calls)]]
       /\ net' = net \cup calls
       /\ SetApp([App EXCEPT !.loading = TRUE])
       /\ UNCHANGED <<rec, scheduleFor>>

\* line 230 resumes: trainModel()
GenerateDataResolves(r, res) ==
    /\ run[r].pc = "generating-data"
    /\ \E q \in Awaited(r, "generating-data") :
         IF Failed(res) THEN Catch(r, q) ELSE Proceed(r, q, App, FALSE, << >>)

\* line 231 resumes: getHighRisk()
TrainModelResolves(r, res) ==
    /\ run[r].pc = "training"
    /\ \E q \in Awaited(r, "training") :
         IF Failed(res) THEN Catch(r, q) ELSE Proceed(r, q, App, FALSE, << >>)

\* lines 233-244: setRiskData, setKpis, optimizeSchedule(weights)
GetHighRiskResolves(r, res) ==
    /\ run[r].pc = "fetching-risk"
    /\ \E q \in Awaited(r, "fetching-risk") :
         IF Failed(res) THEN Catch(r, q)
         ELSE Proceed(r, q, SetRisk(App, res.data), FALSE, << >>)

\* lines 244-247 and 200-210: setScheduleData, computeScheduleKpis, then
\* runWhatIfAnalysis up to the call of the first preset
OptimizeScheduleResolves(r, res) ==
    /\ run[r].pc = "optimizing-schedule"
    /\ \E q \in Awaited(r, "optimizing-schedule") :
         IF Failed(res) THEN Catch(r, q)
         ELSE Proceed(r, q, PipelineSchedule(App, res.data), FALSE, << >>)

\* lines 210-221 for the preset run[r].i.  A failed call and a response
\* without machine_schedules (Object.values(undefined), line 215) both throw
\* into the catch of runWhatIfAnalysis (222-224), which returns normally, so
\* runPipeline goes on at line 249.
ScenarioResolves(r, res) ==
    /\ run[r].pc = "running-scenarios"
    /\ \E q \in Awaited(r, "running-scenarios") :
         IF Failed(res) \/ ~HasMachineSchedules(res.data)
         THEN Proceed(r, q, App, TRUE, << >>)
         ELSE LET k == run[r].i
                  results == Append(run[r].results,
                                    ScenarioResult(scenarios(run[r].w)[k].name, res.data))
                  calls == ScenarioCalls(r, run[r].w, k)
              IN IF k < NumScenarios
                 THEN /\ run' = [run EXCEPT ![r] =
                                   [@ EXCEPT !.i = k + 1,
                                             !.results = results,
                                             !.answers = Append(@, res.data),
                                             !.issued = @ \o SortByK(calls)]]
                      /\ net' = (net \ {q}) \cup calls
                      /\ UNCHANGED <<appState, rec, scheduleFor>>
                 ELSE \* line 221: setScenarioData(results); then line 249
                      Proceed(r, q, [App EXCEPT !.scenarioData = results], FALSE,
                              Append(run[r].answers, res.data))

\* lines 249-252: setJobsData, simulateMaintenance()
GetJobsResolves(r, res) ==
    /\ run[r].pc = "fetching-jobs"
    /\ \E q \in Awaited(r, "fetching-jobs") :
         IF Failed(res) THEN Catch(r, q)
         ELSE Proceed(r, q, [App EXCEPT !.jobsData = res.data], FALSE, << >>)

\* lines 252-257: setMaintenanceData, setLoading(false)
SimulateMaintenanceResolves(r, res) ==
    /\ run[r].pc = "simulating-maintenance"
    /\ \E q \in Awaited(r, "simulating-maintenance") :
         IF Failed(res) THEN Catch(r, q)
         ELSE Proceed(r, q, [App EXCEPT !.maintenanceData = res.data], FALSE, << >>)

-----------------------------------------------------------------------------
(* recomputeSchedule, page.tsx 260-269, called by WeightSlider onChange *)

\* lines 397/403/409 and 260-263: setWeights(newWeights), optimizeSchedule
StartRecompute(c, f, v) ==
    LET newWeights == [weights EXCEPT ![f] = v]
        q == Call(RecOwner(c), "recompute", newWeights, 0)
    IN /\ rec[c].pc = "idle"
       /\ \A x \in 1..(c - 1) : rec[x].pc # "idle"
       /\ v # weights[f]
       /\ rec' = [rec EXCEPT ![c] =
                    [@ EXCEPT !.pc = "recompute", !.newWeights = newWeights,
                              !.issued = << q >>]]
       /\ net' = net \cup {q}
       /\ UNCHANGED <<run, scheduleFor>>
       /\ SetApp([App EXCEPT !.weights = newWeights])

\* lines 263-268
RecomputeResolves(c, res) ==
    /\ rec[c].pc = "recompute"
    /\ \E q \in Pending(RecOwner(c)) :
         /\ net' = net \ {q}
         /\ rec' = [rec EXCEPT ![c] = [@ EXCEPT !.pc = "done", !.failed = Failed(res)]]
         /\ SetApp(IF Failed(res) THEN App ELSE RecomputeSchedule(App, res.data))
         /\ scheduleFor' = IF Failed(res) THEN scheduleFor ELSE q.w
         /\ UNCHANGED run

-----------------------------------------------------------------------------
(* The dashboard: any interleaving of the handlers' resumptions *)

Next ==
    \/ \E r \in Runs : StartPipeline(r)
    \/ \E r \in Runs, res \in {Ack, NetworkFailure} : GenerateDataResolves(r, res)
    \/ \E r \in Runs, res \in {Ack, NetworkFailure} : TrainModelResolves(r, res)
    \/ \E r \in Runs, res \in Answers(RiskResponses) :
          GetHighRiskResolves(r, res)
    \/ \E r \in Runs, res \in Answers(OptimizerResponses) :
          OptimizeScheduleResolves(r, res)
    \/ \E r \in Runs, res \in Answers(OptimizerResponses) :
          ScenarioResolves(r, res)
    \/ \E r \in Runs, res \in Answers(JobsResponses) :
          GetJobsResolves(r, res)
    \/ \E r \in Runs, res \in Answers(MaintenanceResponses) :
          SimulateMaintenanceResolves(r, res)
    \/ \E c \in Recs, f \in WeightFields, v \in SliderPicks : StartRecompute(c, f, v)
    \/ \E c \in Recs, res \in Answers(OptimizerResponses) :
          RecomputeResolves(c, res)

Spec == Init /\ [][Next]_vars

-----------------------------------------------------------------------------
(* The Risk Bucket Projector on its own: every baseline of a fleet of at     *)
(* most MaxTotal machines under the slider positions of ProjectorPicks.      *)

FleetKpisInputs ==
    {[total |-> t, healthy |-> h, warning |-> w, highRisk |-> t - h - w] :
        t \in 0..MaxTotal, h \in 0..MaxTotal, w \in 0..MaxTotal} \cap
    [total : 0..MaxTotal, healthy : 0..MaxTotal, warning : 0..MaxTotal,
     highRisk : 0..MaxTotal]

\* setKpis of a snapshot, then the render that recomputes dynamicKpis
ProjectSnapshot(k) ==
    /\ kpis = InitKpis
    /\ SetApp([App EXCEPT !.kpis = k])
    /\ UNCHANGED <<run, rec, net, scheduleFor>>

\* setWeights of a slider move, then the render that recomputes dynamicKpis
ProjectWeights(f, v) ==
    /\ v # weights[f]
    /\ SetApp([App EXCEPT !.weights = [weights EXCEPT ![f] = v]])
    /\ UNCHANGED <<run, rec, net, scheduleFor>>

ProjectorNext ==
    \/ \E k \in FleetKpisInputs : ProjectSnapshot(k)
    \/ \E f \in WeightFields, v \in ProjectorPicks : ProjectWeights(f, v)

SpecProjector == Init /\ [][ProjectorNext]_vars

-----------------------------------------------------------------------------
(* C1 *)

\* C1: for every baseline FleetKPIs and every WeightVector with components in
\* [0,1], the projected healthy + warning + highRisk equals total and each
\* projected bucket lies in [0, total].
C1_ProjectedBucketsSumToTotal ==
    /\ dynamicKpis.healthy + dynamicKpis.warning + dynamicKpis.highRisk
         = dynamicKpis.total
    /\ dynamicKpis.healthy \in 0..dynamicKpis.total
    /\ dynamicKpis.warning \in 0..dynamicKpis.total
    /\ dynamicKpis.highRisk \in 0..dynamicKpis.total

-----------------------------------------------------------------------------
(* C2, C3: the order of the stages of one run *)

\* the order of the stages as the specification states it
StageOrder ==
    << "generating-data", "training", "fetching-risk", "optimizing-schedule",
       "running-scenarios", "fetching-jobs", "simulating-maintenance" >>

OrderIndex(stage) == CHOOSE n \in 1..Len(StageOrder) : StageOrder[n] = stage

\* the stages of the calls a run has issued, in the order of issue
IssuedStages(r) == [n \in 1..Len(run[r].issued) |-> run[r].issued[n].stage]

\* the stage of run r that failed, "none" if no stage has
FailedStage(r) ==
    IF run[r].scenarioFailed THEN "running-scenarios" ELSE run[r].failed

\* C2: if any stage of a run fails, the run issues no backend call of any
\* later stage.
C2_FailureAbortsLaterStages ==
    \A r \in Runs :
        FailedStage(r) # "none" =>
            \A n \in 1..Len(run[r].issued) :
                OrderIndex(run[r].issued[n].stage) <= OrderIndex(FailedStage(r))

\* the calls of a run in which every call succeeds
FullRun ==
    << "generating-data", "training", "fetching-risk", "optimizing-schedule",
       "running-scenarios", "running-scenarios", "running-scenarios",
       "fetching-jobs", "simulating-maintenance" >>

\* C3: within one run the stages execute strictly in the order of StageOrder:
\* a run has at most one call in flight (a call is issued only after the
\* previous one has resolved), the first call is that of generating-data, each
\* further call is of the same stage (the presets of running-scenarios) or of
\* the next one, and a run that ends with no failure has issued exactly the
\* calls of FullRun.
C3_StagesInOrder ==
    \A r \in Runs :
        LET st == IssuedStages(r) IN
        /\ Cardinality(Pending(RunOwner(r))) <= 1
        /\ Active(r) =>
             /\ Cardinality(Pending(RunOwner(r))) = 1
             /\ \A q \in Pending(RunOwner(r)) : q.stage = run[r].pc
             /\ st # << >> /\ st[Len(st)] = run[r].pc
        /\ st # << >> => st[1] = StageOrder[1]
        /\ \A n \in 1..(Len(st) - 1) :
             \/ OrderIndex(st[n + 1]) = OrderIndex(st[n]) + 1
             \/ st[n + 1] = st[n] /\ st[n] = "running-scenarios"
        /\ (run[r].pc = "done" /\ FailedStage(r) = "none") => st = FullRun

C3_Witness ==
    \E r \in Runs : run[r].pc = "done" /\ FailedStage(r) = "none"
                    /\ Len(run[r].issued) = Len(FullRun)

-----------------------------------------------------------------------------
(* C4: what a failed run leaves behind *)

dataState == <<scheduleData, riskData, jobsData, maintenanceData, scenarioData,
               scheduleKpis, kpis>>

\* C4: when stage k of a run fails, the state written by the stages before k
\* keeps the value they wrote and the state only later stages write keeps the
\* value it had before the run: the step of the run in which a stage fails,
\* and every step of the run after it, changes no data of the application.
C4_FailedRunLeavesState ==
    [][\A r \in Runs :
          (run'[r] # run[r]
             /\ (run'[r].failed # "none" \/ run'[r].scenarioFailed))
          => UNCHANGED dataState]_vars

-----------------------------------------------------------------------------
(* C5, C6, C7: the Scenario Runner *)

\* the calls of the Scenario Runner among the calls run r has issued
RECURSIVE ScenarioCallsIn(_)
ScenarioCallsIn(calls) ==
    IF calls = << >> THEN << >>
    ELSE (IF Head(calls).stage = "running-scenarios" THEN << Head(calls) >> ELSE << >>)
         \o ScenarioCallsIn(Tail(calls))

\* the three presets as the specification states them, the first being the
\* current weights of the run
Presets(w) ==
    << w,
       [w_throughput |-> 70, w_risk |-> 20, w_cost |-> 10],
       [w_throughput |-> 20, w_risk |-> 60, w_cost |-> 20] >>

PresetNames == << "Balanced", "Throughput Focus", "Risk Focus" >>

\* the sum of the job counts of the machines of a schedule, and the row the
\* specification asks for
JobsOf(schedule) ==
    UNION {{<<m, j>> : j \in DOMAIN schedule.machine_schedules[m].schedule} :
              m \in DOMAIN schedule.machine_schedules}

JobCount(schedule) == Cardinality(JobsOf(schedule))

ExpectedRow(k, schedule) ==
    [scenario |-> PresetNames[k],
     scheduled |-> JobCount(schedule),
     unassigned |-> Len(schedule.unassigned_jobs)]

\* the step of run r in which its Scenario Runner returns
RunnerReturns(r) ==
    run[r].pc = "running-scenarios" /\ run'[r].pc # "running-scenarios"

\* C5: if the optimizer call for preset k fails, no call for a later preset
\* is issued by that scenario run, and the scenario results reported after the
\* run are the rows of the presets completed before the failure in this run.
C5_FailedRunnerReportsPartial ==
    [][\A r \in Runs :
          (RunnerReturns(r) /\ run'[r].scenarioFailed) =>
              /\ ScenarioCallsIn(run'[r].issued) = ScenarioCallsIn(run[r].issued)
              /\ scenarioData' = run[r].results]_vars

\* C6: when all optimizer calls of a scenario run succeed (each answers with
\* a Schedule), the reported results have one row per preset, in preset
\* order, each with the sum of the job counts of the machines of that
\* preset's response and the length of its unassigned_jobs.
C6_RunnerReportsEveryPreset ==
    [][\A r \in Runs :
          (RunnerReturns(r) /\ ~run'[r].scenarioFailed) =>
              /\ Len(run'[r].answers) = Len(PresetNames)
              /\ scenarioData' =
                   [k \in 1..Len(PresetNames) |-> ExpectedRow(k, run'[r].answers[k])]]_vars

\* a runner has returned all three rows, one of a response that schedules no job
C6_Witness ==
    \E r \in Runs :
        /\ run[r].pc = "fetching-jobs" /\ ~run[r].scenarioFailed
        /\ Len(run[r].answers) = 3
        /\ run[r].answers[2] = ScheduleNone
        /\ run[r].answers[3] = ScheduleA
        /\ Len(scenarioData) = 3
        /\ scenarioData[2].scheduled = 0 /\ scenarioData[2].unassigned = 3

\* C7: within a scenario run the optimizer calls are issued one at a time in
\* preset order: the runner never has two calls in flight, and the calls it
\* has issued are those of the presets 1..n, in this order, n - 1 of them
\* answered.
C7_RunnerOneCallAtATime ==
    \A r \in Runs :
        LET sc == ScenarioCallsIn(run[r].issued)
            inflight == {q \in Pending(RunOwner(r)) : q.stage = "running-scenarios"}
        IN /\ Cardinality(inflight) <= 1
           /\ Len(sc) <= Len(PresetNames)
           /\ \A n \in 1..Len(sc) :
                /\ sc[n].k = n
                /\ sc[n].op = "POST /optimize-schedule"
                /\ sc[n].w = Presets(run[r].w)[n]
           /\ run[r].pc = "running-scenarios" =>
                /\ Cardinality(inflight) = 1
                /\ \A q \in inflight : q = sc[Len(sc)]
                /\ Len(run[r].answers) = Len(sc) - 1

C7_Witness ==
    \E r \in Runs :
        /\ run[r].pc = "running-scenarios"
        /\ Len(ScenarioCallsIn(run[r].issued)) = 3
        /\ Len(run[r].answers) = 2

-----------------------------------------------------------------------------
(* The Schedule Aggregator on its own: setScheduleData + computeScheduleKpis *)
(* on every Schedule of at most MaxMachines machines with at most MaxJobs    *)
(* jobs each, and on responses without machine_schedules.                    *)

MachineIds == << "M1", "M2", "M3", "M4" >>

\* a job that is on time, one that ends exactly at its deadline and carries
\* no revenue, one that is late
JobChoices ==
    {Job("J1", 0, 4, 5, 100),
     [Job_ID |-> "J2", start |-> 4, end |-> 8, deadline_hours |-> 8],
     Job("J3", 4, 10, 8, 50)}

SeqsUpTo(S, n) == UNION {[1..k -> S] : k \in 0..n}

JobSeqs == SeqsUpTo(JobChoices, MaxJobs)

\* machine_schedules with the job sequences f[1], ..., f[k]
MachineSchedulesOf(f) ==
    [m \in DOMAIN f |-> [id |-> MachineIds[m], schedule |-> f[m]]]

\* the Schedule of f without unassigned_jobs (v = 0), with none unassigned
\* (v = 1), with two unassigned (v = 2)
ScheduleOf(f, v) ==
    CASE v = 0 -> [machine_schedules |-> MachineSchedulesOf(f)]
      [] v = 1 -> [machine_schedules |-> MachineSchedulesOf(f),
                   unassigned_jobs |-> << >>]
      [] v = 2 -> [machine_schedules |-> MachineSchedulesOf(f),
                   unassigned_jobs |-> << "J8", "J9" >>]

\* lines 264-265 on the first schedule the dashboard receives
AggregateInput(schedule) ==
    /\ scheduleData = NULL
    /\ SetApp(RecomputeSchedule(App, schedule))
    /\ UNCHANGED <<run, rec, net, scheduleFor>>

\* the dashboard has no schedule yet: a schedule of any size may arrive
MachineCounts == IF scheduleData = NULL THEN 0..MaxMachines ELSE {}

\* three machines with 10 and with 14 busy hours: averages of 3.33.. and
\* 4.66.. hours, which toFixed(1) rounds down and up
RoundingInputs ==
    {ScheduleOf(<< << Job("J1", 0, 4, 5, 100) >>, << Job("J3", 4, 10, 8, 50) >>,
                   << >> >>, 1),
     ScheduleOf(<< << Job("J1", 0, 4, 5, 100) >>, << Job("J3", 4, 10, 8, 50) >>,
                   << Job("J1", 0, 4, 5, 100) >> >>, 1)}

AggregatorNext ==
    \/ \E k \in MachineCounts :
          \E f \in [1..k -> JobSeqs], v \in 0..2 : AggregateInput(ScheduleOf(f, v))
    \/ \E schedule \in RoundingInputs : AggregateInput(schedule)
    \/ AggregateInput(ScheduleMalformed)

SpecAggregator == Init /\ [][AggregatorNext]_vars

-----------------------------------------------------------------------------
(* C8, C9: ScheduleKPIs *)

OnTimeJobs(schedule) ==
    {p \in JobsOf(schedule) :
        LET job == schedule.machine_schedules[p[1]].schedule[p[2]]
        IN job.end <= job.deadline_hours}

\* C8: for every Schedule the ScheduleKPIs satisfy onTime + late =
\* totalScheduled, totalScheduled is the sum of the job counts of the
\* machines, and a job counts as on time exactly when end <= deadline_hours.
C8_OnTimePlusLateIsTotal ==
    (scheduleData # NULL /\ HasMachineSchedules(scheduleData)) =>
        /\ scheduleKpis.onTime + scheduleKpis.late = scheduleKpis.totalScheduled
        /\ scheduleKpis.totalScheduled = JobCount(scheduleData)
        /\ scheduleKpis.onTime = Cardinality(OnTimeJobs(scheduleData))

\* two machines, a job that ends at its deadline and a late one
C8_Witness ==
    /\ scheduleData # NULL /\ HasMachineSchedules(scheduleData)
    /\ Len(scheduleData.machine_schedules) = 2
    /\ \E p \in JobsOf(scheduleData) :
          LET job == scheduleData.machine_schedules[p[1]].schedule[p[2]]
          IN job.end = job.deadline_hours
    /\ scheduleKpis.onTime >= 1 /\ scheduleKpis.late >= 1
    /\ scheduleKpis.totalScheduled = 4

\* C9: in every state the stored ScheduleKPIs are the aggregation of the
\* stored Schedule, also of one that lacks machine_schedules (no machine, no
\* job): its job counts and its unassigned count.
C9_KpisOfCurrentSchedule ==
    scheduleData # NULL =>
        /\ scheduleKpis.totalScheduled =
             (IF HasMachineSchedules(scheduleData) THEN JobCount(scheduleData) ELSE 0)
        /\ scheduleKpis.onTime =
             (IF HasMachineSchedules(scheduleData)
              THEN Cardinality(OnTimeJobs(scheduleData)) ELSE 0)
        /\ scheduleKpis.unassigned = UnassignedCount(scheduleData)

-----------------------------------------------------------------------------
(* C10: the recompute path *)

\* C10: a recompute issues exactly one optimize-schedule call, with the new
\* weights, and no other backend call; it changes only the weights, the
\* schedule and the ScheduleKPIs; the risk snapshot, the baseline FleetKPIs,
\* the scenario results, the jobs, the maintenance events and the loading
\* flag stay as they are, and so do the schedule and the ScheduleKPIs when
\* the optimizer call fails.
C10_RecomputeFrame ==
    [][\A c \in Recs :
          rec'[c] # rec[c] =>
              /\ UNCHANGED <<riskData, kpis, scenarioData, jobsData,
                             maintenanceData, loading>>
              /\ rec[c].pc = "idle" =>
                   /\ weights' = rec'[c].newWeights
                   /\ \E q \in net' :
                        /\ net' = net \cup {q} /\ q \notin net
                        /\ q.op = "POST /optimize-schedule"
                        /\ q.w = weights'
                        /\ rec'[c].issued = << q >>
                   /\ UNCHANGED <<scheduleData, scheduleKpis>>
              /\ rec[c].pc = "recompute" =>
                   /\ net' \subseteq net
                   /\ rec'[c].issued = rec[c].issued
                   /\ UNCHANGED weights
                   /\ rec'[c].failed => UNCHANGED <<scheduleData, scheduleKpis>>]_vars

\* a recompute has replaced the schedule of a dashboard that shows scenario
\* results, jobs and maintenance events
C10_Witness ==
    \E c \in Recs :
        /\ rec[c].pc = "done" /\ ~rec[c].failed
        /\ weights = rec[c].newWeights
        /\ scenarioData # << >> /\ jobsData # << >> /\ maintenanceData # << >>
        /\ scheduleData = ScheduleNone

-----------------------------------------------------------------------------
(* The pipeline with a backend that answers: every request is settled, with *)
(* a response or with an error, and the event loop then runs the resumption  *)
(* of the run that awaits it.  A resumption stays enabled until it is taken, *)
(* so weak fairness on the resumptions of each run is what this gives.       *)

\* the resumptions of invocation r of runPipeline
RunSteps(r) ==
    \/ \E res \in {Ack, NetworkFailure} : GenerateDataResolves(r, res)
    \/ \E res \in {Ack, NetworkFailure} : TrainModelResolves(r, res)
    \/ \E res \in Answers(RiskResponses) : GetHighRiskResolves(r, res)
    \/ \E res \in Answers(OptimizerResponses) : OptimizeScheduleResolves(r, res)
    \/ \E res \in Answers(OptimizerResponses) : ScenarioResolves(r, res)
    \/ \E res \in Answers(JobsResponses) : GetJobsResolves(r, res)
    \/ \E res \in Answers(MaintenanceResponses) : SimulateMaintenanceResolves(r, res)

\* the pipeline alone: runs are started (mount effect, Refresh button) and
\* resumed; no slider is moved
PipelineNext ==
    \/ \E r \in Runs : StartPipeline(r)
    \/ \E r \in Runs : RunSteps(r)

SpecFair ==
    /\ Init /\ [][PipelineNext]_vars
    /\ \A r \in Runs : WF_vars(RunSteps(r))

\* C11: the step that starts a run of the pipeline sets the loading
\* indicator, the step that ends it clears the indicator, whether the run
\* ends after its last stage or in the catch of a failed stage; and when
\* every backend call is answered, every started run reaches that end.
C11_LoadingSetAndCleared ==
    /\ [][\A r \in Runs :
            /\ (run[r].pc = "idle" /\ run'[r].pc # "idle") => loading'
            /\ (run[r].pc # "done" /\ run'[r].pc = "done") => ~loading']_vars
    /\ \A r \in Runs : Active(r) ~> (run[r].pc = "done")

\* one run ended after its last stage, another in the catch, and the
\* indicator is off
C11_Witness ==
    /\ ~loading
    /\ \E r, x \in Runs :
          /\ run[r].pc = "done" /\ run[r].failed = "none"
          /\ run[x].pc = "done" /\ run[x].failed # "none"

-----------------------------------------------------------------------------
(* C12: avgUtilization, totalRevenue, the empty Schedule *)

JobAt(schedule, p) == schedule.machine_schedules[p[1]].schedule[p[2]]

\* sum of end - start over the jobs at the positions pairs
RECURSIVE BusyHours(_, _)
BusyHours(schedule, pairs) ==
    IF pairs = {} THEN 0
    ELSE LET p == CHOOSE x \in pairs : TRUE
             job == JobAt(schedule, p)
         IN (job.end - job.start) + BusyHours(schedule, pairs \ {p})

\* sum of the revenues over the jobs at the positions pairs, 0 for a job
\* without revenue
RECURSIVE Revenues(_, _)
Revenues(schedule, pairs) ==
    IF pairs = {} THEN 0
    ELSE LET p == CHOOSE x \in pairs : TRUE
             job == JobAt(schedule, p)
         IN (IF "revenue" \in DOMAIN job THEN job.revenue ELSE 0)
                + Revenues(schedule, pairs \ {p})

\* tenths / 10 is a multiple of 0.1 nearest to num / den
NearestTenth(tenths, num, den) ==
    LET d == 10 * num - tenths * den
    IN 2 * (IF d >= 0 THEN d ELSE -d) <= den

AverageAndRevenue ==
    LET machines == Len(scheduleData.machine_schedules)
        jobs == JobsOf(scheduleData)
    IN /\ IF machines = 0
          THEN scheduleKpis.avgUtilization = 0
          ELSE NearestTenth(scheduleKpis.avgUtilization,
                            BusyHours(scheduleData, jobs), machines)
       /\ scheduleKpis.totalRevenue = Revenues(scheduleData, jobs)

NoMachineOrNoJob ==
    \/ Len(scheduleData.machine_schedules) = 0
    \/ JobsOf(scheduleData) = {}

\* C12 as stated: avgUtilization is the sum of end - start over all jobs
\* divided by the number of machines and rounded to one decimal, 0 without
\* machines; totalRevenue is the sum of the revenues, a missing revenue
\* counting 0; a Schedule with no machine or no job yields the all-zero
\* ScheduleKPIs.
C12_AllZeroOnEmptySchedule ==
    HasMachineSchedules(scheduleData) =>
        /\ AverageAndRevenue
        /\ NoMachineOrNoJob => scheduleKpis = InitScheduleKpis

\* C12, amended: as above, but a Schedule with no machine or no job yields
\* ScheduleKPIs whose totalScheduled, onTime, late, totalRevenue and
\* avgUtilization are 0, while unassigned is the number of unassigned jobs
\* of the Schedule.
C12_AverageRevenueAndEmptySchedule ==
    HasMachineSchedules(scheduleData) =>
        /\ AverageAndRevenue
        /\ NoMachineOrNoJob =>
              scheduleKpis = [InitScheduleKpis EXCEPT
                                !.unassigned = UnassignedCount(scheduleData)]

\* machines without jobs and two unassigned jobs: every total is 0, unassigned
\* is 2
C12_Witness ==
    /\ HasMachineSchedules(scheduleData)
    /\ Len(scheduleData.machine_schedules) = 2
    /\ JobsOf(scheduleData) = {}
    /\ scheduleKpis = [InitScheduleKpis EXCEPT !.unassigned = 2]

-----------------------------------------------------------------------------
(* The Timeline Builder on its own: the list of tasks of the first schedule  *)
(* the dashboard receives, for every schedule of at most MaxMachines         *)
(* machines with at most MaxJobs jobs each.  The machine ids contain the     *)
(* separator and digits; the jobs are one that takes time, one of no         *)
(* duration and one whose end lies before its start.                         *)

GanttMachineIds == << "M1", "M1_0", "M", "M_1" >>

GanttJobChoices ==
    {Job("J1", 0, 4, 5, 100), Job("J2", 4, 4, 8, 50), Job("J3", 6, 2, 8, 50)}

GanttJobSeqs == SeqsUpTo(GanttJobChoices, MaxJobs)

GanttSchedule(f) ==
    [machine_schedules |->
        [m \in DOMAIN f |-> [id |-> GanttMachineIds[m], schedule |-> f[m]]],
     unassigned_jobs |-> << >>]

TimelineNext ==
    \/ \E k \in MachineCounts :
          \E f \in [1..k -> GanttJobSeqs] : AggregateInput(GanttSchedule(f))
    \/ AggregateInput(ScheduleMalformed)

SpecTimeline == Init /\ [][TimelineNext]_vars

\* the number of jobs of the machines before machine m
RECURSIVE JobsBefore(_, _)
JobsBefore(schedule, m) ==
    IF m = 1 THEN 0
    ELSE JobsBefore(schedule, m - 1) + Len(schedule.machine_schedules[m - 1].schedule)

\* C13: the timeline has exactly one task per (machine, job) pair, as many
\* as there are jobs, the machines in their order and the jobs of a machine
\* in theirs; the ids, machine id, "_" and the index of the job, are
\* pairwise distinct; the end of a task is not before its start whenever
\* the end of its job is not before the start of the job.
C13_OneTaskPerJob ==
    HasMachineSchedules(scheduleData) =>
        /\ Len(ganttTasks) = JobCount(scheduleData)
        /\ \A p \in JobsOf(scheduleData) :
              LET task == ganttTasks[JobsBefore(scheduleData, p[1]) + p[2]]
                  job == JobAt(scheduleData, p)
              IN /\ task.name = job.Job_ID
                 /\ task.id = scheduleData.machine_schedules[p[1]].id
                                  \o "_" \o ToString(p[2] - 1)
                 /\ job.end >= job.start => task.end >= task.start
        /\ \A a, b \in DOMAIN ganttTasks :
              a # b => ganttTasks[a].id # ganttTasks[b].id

\* two machines with two jobs each, among them one that takes time
C13_Witness ==
    /\ HasMachineSchedules(scheduleData)
    /\ Len(scheduleData.machine_schedules) = 2
    /\ Len(ganttTasks) = 4
    /\ \E a \in DOMAIN ganttTasks : ganttTasks[a].end > ganttTasks[a].start
    /\ ganttTasks[4].id = "M1_0_1"

-----------------------------------------------------------------------------
(* The Deferral Annotator on its own: the annotations of the first schedule  *)
(* the dashboard receives, for every list of at most MaxUnassigned ids.      *)

DeferredIds == {"J1", "J2", "J3"}

\* the dashboard has no schedule yet: a list of any length may arrive
UnassignedCounts == IF scheduleData = NULL THEN 0..MaxUnassigned ELSE {}

DeferralNext ==
    \/ \E k \in UnassignedCounts :
          \E u \in [1..k -> DeferredIds] :
             AggregateInput([machine_schedules |-> << >>, unassigned_jobs |-> u])
    \/ AggregateInput([machine_schedules |-> << >>])

SpecDeferral == Init /\ [][DeferralNext]_vars

\* C14: for every list of unassigned job ids the annotations have the length
\* and the order of the list, entry i (from 0) carries the reason i mod 3 of
\* the three reasons, and the reasons at i and at i + 3 are the same.
C14_ReasonsCycle ==
    "unassigned_jobs" \in DOMAIN scheduleData =>
        LET ids == scheduleData.unassigned_jobs IN
        /\ Len(deferredJobsList) = Len(ids)
        /\ \A n \in DOMAIN ids :
              /\ deferredJobsList[n].id = ids[n]
              /\ deferredJobsList[n].reason = reasons[((n - 1) % 3) + 1]
        /\ \A n \in DOMAIN ids :
              n + 3 \in DOMAIN ids =>
                  deferredJobsList[n].reason = deferredJobsList[n + 3].reason

\* four unassigned jobs: the fourth carries the reason of the first
C14_Witness ==
    /\ "unassigned_jobs" \in DOMAIN scheduleData
    /\ Len(deferredJobsList) = 4
    /\ deferredJobsList[4].reason = reasons[1]
    /\ deferredJobsList[2].id # deferredJobsList[1].id

-----------------------------------------------------------------------------
(* C15, C16: overlapping handlers *)

\* the handlers that have asked for the current schedule (runPipeline at
\* line 244, recomputeSchedule at line 263), and those that were answered
\* with a response
ScheduleRequesters ==
    {RunOwner(r) : r \in {x \in Runs :
        \E n \in DOMAIN run[x].issued : run[x].issued[n].stage = "optimizing-schedule"}}
    \cup {RecOwner(c) : c \in {x \in Recs : rec[x].pc # "idle"}}

ScheduleRequestSucceeded(o) ==
    IF o[1] = "run"
    THEN run[o[2]].pc # "optimizing-schedule" /\ run[o[2]].failed # "optimizing-schedule"
    ELSE rec[o[2]].pc = "done" /\ ~rec[o[2]].failed

NoOptimizerRequestInFlight ==
    \A q \in net : q.op # "POST /optimize-schedule"

\* the weight vectors the dashboard has had, oldest first, and the place of
\* the latest occurrence of w among them
WeightHistory ==
    LET started == {c \in Recs : rec[c].pc # "idle"}
    IN << InitWeights >> \o [c \in 1..Cardinality(started) |-> rec[c].newWeights]

Age(w) == CHOOSE n \in DOMAIN WeightHistory :
             /\ WeightHistory[n] = w
             /\ \A x \in DOMAIN WeightHistory : WeightHistory[x] = w => x <= n

\* no optimizer request is in flight and the requests for the current
\* schedule, the most recently issued one among them, have all succeeded
Settled ==
    /\ NoOptimizerRequestInFlight
    /\ ScheduleRequesters # {}
    /\ \A o \in ScheduleRequesters : ScheduleRequestSucceeded(o)

\* C15: after any interleaving of recomputes and pipeline runs, whenever no
\* optimizer request is in flight and the most recently issued request for
\* the current schedule succeeded, the stored schedule is the response to a
\* request made with the stored weights; and a response to a request made
\* with an older weight vector never replaces the schedule of a newer one.
\* The first half is stated for the states where every request for the
\* current schedule succeeded, which is where the order of the requests
\* does not matter.
C15_ScheduleOfCurrentWeights ==
    [][/\ Settled' => scheduleFor' = weights'
       /\ (scheduleFor # NULL /\ scheduleFor' # scheduleFor)
             => Age(scheduleFor') >= Age(scheduleFor)]_vars

\* C16: in every state in which a run of the pipeline has started and not
\* finished, loading is true; in particular a run that finishes while
\* another one is in flight leaves it true.
C16_LoadingWhileRunInFlight ==
    (\E r \in Runs : Active(r)) => loading

=============================================================================
